---------------------------- MODULE Spec2Model ----------------------------
(***************************************************************************)
(* Name Request notification email processor                               *)
(* (entity_emailer/email_processors/nr_notification.py).                   *)
(*                                                                         *)
(* The module models get_url and process over the ambient Flask            *)
(* configuration, the template directory and the NameX registry response.  *)
(* Python values that may be None are tagged records: None, Str(s) and a   *)
(* structured ISO-8601 timestamp string.  The option is a sequence of      *)
(* characters so that str.upper() is computed character by character.      *)
(***************************************************************************)
EXTENDS Integers, Sequences, FiniteSets, TLC

VARIABLES
    config,        \* current_app.config: a mapping from keys to values
    files,         \* the paths that exist on the file system
    op,            \* the call whose outcome is held: "none", "process" or "get_url"
    email_info,    \* argument of process
    option,        \* argument of process
    nr_response,   \* what NameXService.query_nr_number answers for this call
    entity_arg,    \* argument of get_url (a direct call)
    result,        \* outcome of the last call: a return value or an exception
    queried,       \* whether process called NameXService.query_nr_number
    read_path,     \* the path process handed to Path(...).read_text()
    render_ctx     \* the keyword arguments process handed to Template.render

vars == <<config, files, op, email_info, option, nr_response, entity_arg,
          result, queried, read_path, render_ctx>>

---------------------------------------------------------------------------
(* Bounds *)

MaxNames == 2

---------------------------------------------------------------------------
(* Python values *)

None == [t |-> "None"]

Str(s) == [t |-> "str", v |-> s]

\* An ISO-8601 timestamp string, kept by its fields: year, day of the year,
\* hour of the day and UTC offset in hours.
Iso(y, d, h, off) == [t |-> "iso", year |-> y, ordinal |-> d, hour |-> h, utcoffset |-> off]

\* bool(v) for the values above: None and '' are falsy.
Truthy(v) == v # None /\ v # Str("")

EmptyDict == [k \in {} |-> None]

\* dict.get(key, default)
Get(d, k, default) == IF k \in DOMAIN d THEN d[k] ELSE default

\* str(v) inside an f-string, for a value that is None or a plain string.
Format(v) == IF v = None THEN "None" ELSE v.v

---------------------------------------------------------------------------
(* Characters and str.upper() *)

Lower == <<"a","b","c","d","e","f","g","h","i","j","k","l","m",
           "n","o","p","q","r","s","t","u","v","w","x","y","z">>

Capital == <<"A","B","C","D","E","F","G","H","I","J","K","L","M",
             "N","O","P","Q","R","S","T","U","V","W","X","Y","Z">>

\* The capital of each lower-case letter.
ToUpper ==
    [c \in {Lower[i] : i \in DOMAIN Lower} |->
        Capital[CHOOSE i \in DOMAIN Lower : Lower[i] = c]]

\* Other characters (capitals, digits, '-') are left as they are.
UpperChar(c) == IF c \in DOMAIN ToUpper THEN ToUpper[c] ELSE c

\* Mutant of upper: the option is used as it is written.
upper_AsWritten(s) == s

upper(s) == [i \in DOMAIN s |-> UpperChar(s[i])]

---------------------------------------------------------------------------
(* class Option *)

BEFORE_EXPIRY == <<"b","e","f","o","r","e","-","e","x","p","i","r","y">>

EXPIRED == <<"e","x","p","i","r","e","d">>

RENEWAL == <<"r","e","n","e","w","a","l">>

UPGRADE == <<"u","p","g","r","a","d","e">>

REFUND == <<"r","e","f","u","n","d">>

OptionValues == {BEFORE_EXPIRY, EXPIRED, RENEWAL, UPGRADE, REFUND}

---------------------------------------------------------------------------
(* get_url *)

GENERIC_STEPS == Str("Submit appropriate form to BC Registries. Call if assistance required")

EX_COOP_ASSOC == Str("Extraprovincial Cooperative Association")

UrlTable(cfg) ==
    LET DECIDE_BUSINESS_URL == Get(cfg, "DECIDE_BUSINESS_URL", None)
        CORP_FORMS_URL == Get(cfg, "CORP_FORMS_URL", None)
        BUSINESS_URL == Get(cfg, "BUSINESS_URL", None)
        CORP_ONLINE_URL == Get(cfg, "COLIN_URL", None)
    IN  [CR  |-> CORP_ONLINE_URL,
         UL  |-> CORP_ONLINE_URL,
         FR  |-> DECIDE_BUSINESS_URL,
         GP  |-> DECIDE_BUSINESS_URL,
         DBA |-> DECIDE_BUSINESS_URL,
         LP  |-> CORP_FORMS_URL,
         LL  |-> CORP_FORMS_URL,
         CP  |-> BUSINESS_URL,
         BC  |-> BUSINESS_URL,
         CC  |-> CORP_ONLINE_URL,
         SO  |-> Str("BC Social Enterprise"),
         PA  |-> GENERIC_STEPS,
         FI  |-> GENERIC_STEPS,
         PAR |-> GENERIC_STEPS,
         XCR |-> CORP_ONLINE_URL,
         XUL |-> CORP_ONLINE_URL,
         RLC |-> CORP_ONLINE_URL,
         XLP |-> CORP_FORMS_URL,
         XLL |-> CORP_FORMS_URL,
         XCP |-> EX_COOP_ASSOC,
         XSO |-> EX_COOP_ASSOC]

\* Mutant of get_url: a code the table lacks yields '' instead of None.
get_url_EmptyDefault(cfg, entity_type_cd) == Get(UrlTable(cfg), entity_type_cd, Str(""))

get_url(cfg, entity_type_cd) == Get(UrlTable(cfg), entity_type_cd, None)

---------------------------------------------------------------------------
(* Collaborators of process *)

\* Path(f'{current_app.config.get("TEMPLATE_PATH")}/NR-{option.upper()}.html'):
\* the directory part and the file name part of the formatted path.
TemplateFile(cfg, opt) ==
    [dir  |-> Format(Get(cfg, "TEMPLATE_PATH", None)),
     name |-> <<"N","R","-">> \o upper(opt) \o <<".","h","t","m","l">>]

\* Path.read_text(): the text of the file at that path.
read_text(path) == [text_of |-> path]

\* substitute_template_parts(template): the template with the shared
\* header and footer fragments injected.
substitute_template_parts(template) == [parts_of |-> template]

\* datetime.fromisoformat(s): the aware datetime an ISO-8601 string denotes.
fromisoformat(s) ==
    [year |-> s.year, ordinal |-> s.ordinal, hour |-> s.hour, utcoffset |-> s.utcoffset]

\* UTC offset, in hours, of the legislation timezone.
LegislationUtcOffset == -8

\* LegislationDatetime.as_legislation_timezone(dt): the same instant on the
\* legislation timezone's clock (the day changes when the hour wraps).
as_legislation_timezone(dt) ==
    LET hours == dt.ordinal * 24 + dt.hour - dt.utcoffset + LegislationUtcOffset
    IN  [year |-> dt.year, ordinal |-> hours \div 24, hour |-> hours % 24,
         utcoffset |-> LegislationUtcOffset]

\* LegislationDatetime.format_as_report_string(dt): the fixed report
\* format, which shows the date and time of day but no UTC offset.
format_as_report_string(dt) ==
    [t |-> "report", year |-> dt.year, ordinal |-> dt.ordinal, hour |-> dt.hour]

\* Template(filled_template, autoescape=True).render(**ctx)
Render(filled_template, ctx) ==
    [template |-> filled_template, autoescape |-> TRUE, context |-> ctx]

---------------------------------------------------------------------------
(* process, step by step *)

\* Mutant of ExpirationDate: the timestamp is formatted on its own clock,
\* without the conversion to the legislation timezone.
ExpirationDate_NoTimezone(nr_data) ==
    IF Truthy(nr_data["expirationDate"])
    THEN format_as_report_string(fromisoformat(nr_data["expirationDate"]))
    ELSE Str("")

\* lines 96-100
ExpirationDate(nr_data) ==
    IF Truthy(nr_data["expirationDate"])
    THEN LET exp_date == fromisoformat(nr_data["expirationDate"])
             exp_date_tz == as_legislation_timezone(exp_date)
         IN  format_as_report_string(exp_date_tz)
    ELSE Str("")

\* Mutant of RefundValue: the value is read whatever the option.
RefundValue_AnyOption(info, opt) ==
    Get(Get(Get(info, "data", EmptyDict), "request", EmptyDict), "refundValue", None)

\* lines 102-104
RefundValue(info, opt) ==
    IF opt = REFUND
    THEN Get(Get(Get(info, "data", EmptyDict), "request", EmptyDict), "refundValue", None)
    ELSE Str("")

\* lines 106-110: the loop over nr_data['names'], from index i on.
RECURSIVE LegalNameFrom(_, _)
LegalNameFrom(names, i) ==
    IF i > Len(names) THEN ""
    ELSE IF names[i].state \in {"APPROVED", "CONDITION"} THEN names[i].name
    ELSE LegalNameFrom(names, i + 1)

\* Mutant of LegalName: the loop has no break, so the last match wins.
LegalName_LastMatch(nr_data) ==
    LET names == nr_data["names"]
        hits == {i \in DOMAIN names : names[i].state \in {"APPROVED", "CONDITION"}}
    IN  IF hits = {} THEN ""
        ELSE names[CHOOSE i \in hits : \A j \in hits : j <= i].name

LegalName(nr_data) == LegalNameFrom(nr_data["names"], 1)

\* Mutant of subjects: the suffixes of renewal and upgrade are exchanged.
subjects_Exchanged ==
    [o \in OptionValues |->
        CASE o = BEFORE_EXPIRY -> "Expiring Soon"
          [] o = EXPIRED -> "Expired"
          [] o = RENEWAL -> "Confirmation of Upgrade"
          [] o = UPGRADE -> "Confirmation of Renewal"
          [] o = REFUND -> "Refund request confirmation"]

\* lines 131-137
subjects ==
    [o \in OptionValues |->
        CASE o = BEFORE_EXPIRY -> "Expiring Soon"
          [] o = EXPIRED -> "Expired"
          [] o = RENEWAL -> "Confirmation of Renewal"
          [] o = UPGRADE -> "Confirmation of Upgrade"
          [] o = REFUND -> "Refund request confirmation"]

\* Mutant of Payload: the rendered HTML is also sent as an attachment.
Payload_BodyAttached(recipients, nr_number, subject, html_out) ==
    [recipients |-> recipients,
     requestBy  |-> "BCRegistries@gov.bc.ca",
     content    |-> [subject     |-> nr_number \o " - " \o subject,
                     body        |-> html_out,
                     attachments |-> <<html_out>>]]

\* lines 139-147
Payload(recipients, nr_number, subject, html_out) ==
    [recipients |-> recipients,
     requestBy  |-> "BCRegistries@gov.bc.ca",
     content    |-> [subject     |-> nr_number \o " - " \o subject,
                     body        |-> html_out,
                     attachments |-> <<>>]]

\* Outcomes of a call.
Return(v) == [kind |-> "return", value |-> v]

Raise(e) == [kind |-> "raise", exc |-> e]

\* process returning {}
EmptyMapping == Return(EmptyDict)

\* Mutant of LookupFailed: only server errors count as a failed lookup.
LookupFailed_ServerErrorsOnly(resp) == resp.status_code >= 500

\* lines 90-92: the test of the registry's answer.
LookupFailed(resp) == resp.status_code # 200

\* lines 112-124: the keyword arguments of render.
RenderContext(cfg, info, opt, nr_data) ==
    [nr_number           |-> info["identifier"],
     expiration_date     |-> ExpirationDate(nr_data),
     legal_name          |-> LegalName(nr_data),
     refund_value        |-> RefundValue(info, opt),
     name_request_url    |-> get_url(cfg, nr_data["entity_type_cd"]),
     decide_business_url |-> Get(cfg, "DECIDE_BUSINESS_URL", None)]

\* Mutant of Package: only a missing address (None) stops the email; an
\* empty string goes on to the payload.
Package_NoneOnly(info, opt, nr_data, html_out) ==
    LET recipients == nr_data["applicants"]["emailAddress"]
    IN  IF recipients = None THEN EmptyMapping
        ELSE IF opt \notin DOMAIN subjects THEN Raise("KeyError")
        ELSE Return(Payload(recipients, info["identifier"], subjects[opt], html_out))

\* lines 126-147: from the recipients to the returned mapping.
Package(info, opt, nr_data, html_out) ==
    LET recipients == nr_data["applicants"]["emailAddress"]
    IN  IF ~Truthy(recipients) THEN EmptyMapping
        ELSE IF opt \notin DOMAIN subjects THEN Raise("KeyError")
        ELSE Return(Payload(recipients, info["identifier"], subjects[opt], html_out))

\* Mutant of ProcessRun: the registry is queried before the template is
\* read, so a failed lookup returns {} even without a template file.
ProcessRun_LookupFirst(cfg, fs, info, opt, resp) ==
    LET path == TemplateFile(cfg, opt)
        filled_template == substitute_template_parts(read_text(path))
        nr_data == resp.json
        ctx == RenderContext(cfg, info, opt, nr_data)
    IN  IF LookupFailed(resp)
        THEN [result |-> EmptyMapping, queried |-> TRUE,
              read_path |-> path, render_ctx |-> None]
        ELSE IF path \notin fs
        THEN [result |-> Raise("FileNotFoundError"), queried |-> TRUE,
              read_path |-> path, render_ctx |-> None]
        ELSE [result |-> Package(info, opt, nr_data, Render(filled_template, ctx)),
              queried |-> TRUE, read_path |-> path, render_ctx |-> ctx]

\* The whole of process: its outcome, whether the registry was queried,
\* the path it read and the context it rendered (None when not reached).
ProcessRun(cfg, fs, info, opt, resp) ==
    LET path == TemplateFile(cfg, opt)
        filled_template == substitute_template_parts(read_text(path))
        nr_data == resp.json
        ctx == RenderContext(cfg, info, opt, nr_data)
    IN  IF path \notin fs
        THEN [result |-> Raise("FileNotFoundError"), queried |-> FALSE,
              read_path |-> path, render_ctx |-> None]
        ELSE IF LookupFailed(resp)
        THEN [result |-> EmptyMapping, queried |-> TRUE,
              read_path |-> path, render_ctx |-> None]
        ELSE [result |-> Package(info, opt, nr_data, Render(filled_template, ctx)),
              queried |-> TRUE, read_path |-> path, render_ctx |-> ctx]

---------------------------------------------------------------------------
(* The environment and the arguments the calls are made with *)

ConfigKeys == {"TEMPLATE_PATH", "DECIDE_BUSINESS_URL", "CORP_FORMS_URL", "BUSINESS_URL", "COLIN_URL"}

UrlKeys == ConfigKeys \ {"TEMPLATE_PATH"}

FullConfig ==
    [TEMPLATE_PATH       |-> Str("/templates"),
     DECIDE_BUSINESS_URL |-> Str("https://decide.example"),
     CORP_FORMS_URL      |-> Str("https://forms.example"),
     BUSINESS_URL        |-> Str("https://business.example"),
     COLIN_URL           |-> Str("https://colin.example")]

ConfigWith(keys) == [k \in keys |-> FullConfig[k]]

\* Every key set; one URL key missing; no URL key; no template path.
Configs ==
    {ConfigWith(ConfigKeys), ConfigWith({"TEMPLATE_PATH"}), ConfigWith(UrlKeys)}
    \cup {ConfigWith(ConfigKeys \ {k}) : k \in UrlKeys}

TemplateNames ==
    {<<"N","R","-","B","E","F","O","R","E","-","E","X","P","I","R","Y",".","h","t","m","l">>,
     <<"N","R","-","E","X","P","I","R","E","D",".","h","t","m","l">>,
     <<"N","R","-","R","E","N","E","W","A","L",".","h","t","m","l">>,
     <<"N","R","-","U","P","G","R","A","D","E",".","h","t","m","l">>,
     <<"N","R","-","R","E","F","U","N","D",".","h","t","m","l">>}

InstalledTemplates == {[dir |-> "/templates", name |-> n] : n \in TemplateNames}

\* The template directory as installed, and with one template missing.
FileSystems ==
    {InstalledTemplates,
     InstalledTemplates \ {[dir |-> "/templates",
         name |-> <<"N","R","-","R","E","N","E","W","A","L",".","h","t","m","l">>]}}

\* The five option values and two spellings of them in another letter case.
Options ==
    OptionValues \cup {<<"R","E","N","E","W","A","L">>, <<"R","e","f","u","n","d">>}

Identifier == "NR 1234567"

EmailInfos ==
    {[identifier |-> Identifier],
     [identifier |-> Identifier, data |-> EmptyDict],
     [identifier |-> Identifier, data |-> [request |-> EmptyDict]],
     [identifier |-> Identifier, data |-> [request |-> [refundValue |-> Str("30.00")]]]}

NameAt == <<"Acme Co", "Bolt Ltd", "Crest Inc", "Dune Corp", "Elm LLP">>

NameStates == {"APPROVED", "CONDITION", "REJECTED"}

\* The names of a record: up to MaxNames entries, each in any state.
NamesLists ==
    UNION {{[i \in 1..n |-> [name |-> NameAt[i], state |-> st[i]]] :
                st \in [1..n -> NameStates]} : n \in 0..MaxNames}

ExpirationDates == {None, Str(""), Iso(2023, 15, 20, 0), Iso(2023, 15, 3, 0)}

EmailAddresses == {None, Str(""), Str("applicant@example.com")}

EntityTypes == {"CR", "ZZ"}

Records ==
    {[names          |-> ns,
      applicants     |-> [emailAddress |-> em],
      expirationDate |-> ex,
      entity_type_cd |-> et] :
        ns \in NamesLists, em \in EmailAddresses, ex \in ExpirationDates, et \in EntityTypes}

StatusCodes == {200, 404}

Responses == {[status_code |-> sc, json |-> r] : sc \in StatusCodes, r \in Records}

\* The codes of the table and two codes it does not have.
EntityCodes == DOMAIN UrlTable(FullConfig) \cup {"ZZ", ""}

---------------------------------------------------------------------------
(* The state machine *)

Init ==
    /\ config \in Configs
    /\ files \in FileSystems
    /\ op = "none"
    /\ email_info = None
    /\ option = None
    /\ nr_response = None
    /\ entity_arg = None
    /\ result = None
    /\ queried = FALSE
    /\ read_path = None
    /\ render_ctx = None

\* A call of process(email_info, option), the registry answering resp.
Process ==
    /\ op = "none"
    /\ \E info \in EmailInfos, opt \in Options, resp \in Responses :
        LET run == ProcessRun(config, files, info, opt, resp)
        IN  /\ op' = "process"
            /\ email_info' = info
            /\ option' = opt
            /\ nr_response' = resp
            /\ entity_arg' = None
            /\ result' = run.result
            /\ queried' = run.queried
            /\ read_path' = run.read_path
            /\ render_ctx' = run.render_ctx
            /\ UNCHANGED <<config, files>>

\* A direct call of get_url(entity_type_cd).
GetUrl ==
    /\ op = "none"
    /\ \E code \in EntityCodes :
        /\ op' = "get_url"
        /\ entity_arg' = code
        /\ result' = Return(get_url(config, code))
        /\ email_info' = None
        /\ option' = None
        /\ nr_response' = None
        /\ queried' = FALSE
        /\ read_path' = None
        /\ render_ctx' = None
        /\ UNCHANGED <<config, files>>

\* The caller takes the outcome; nothing of the call is kept.
Done ==
    /\ op # "none"
    /\ op' = "none"
    /\ email_info' = None
    /\ option' = None
    /\ nr_response' = None
    /\ entity_arg' = None
    /\ result' = None
    /\ queried' = FALSE
    /\ read_path' = None
    /\ render_ctx' = None
    /\ UNCHANGED <<config, files>>

Next == Process \/ GetUrl \/ Done

Spec == Init /\ [][Next]_vars

---------------------------------------------------------------------------
(* Vocabulary of the properties *)

\* The record the registry answered with, and its parts.
nr_record == nr_response.json

recipients_of_record == nr_record["applicants"]["emailAddress"]

\* The registry was queried and answered OK.
LookupSucceeded == queried /\ nr_response.status_code = 200

\* process returned a payload (a non-empty mapping).
ReturnedPayload == result.kind = "return" /\ result.value # EmptyDict

\* str.lower(), for naming the lowercase form of an option.
LowerChar(c) ==
    IF \E i \in DOMAIN Capital : Capital[i] = c
    THEN Lower[CHOOSE i \in DOMAIN Capital : Capital[i] = c]
    ELSE c

lower(s) == [i \in DOMAIN s |-> LowerChar(s[i])]

\* The template file name and the subject suffix the specification gives
\* for each of the five options.
ExpectedFileName(o) ==
    CASE o = BEFORE_EXPIRY ->
            <<"N","R","-","B","E","F","O","R","E","-","E","X","P","I","R","Y",".","h","t","m","l">>
      [] o = EXPIRED -> <<"N","R","-","E","X","P","I","R","E","D",".","h","t","m","l">>
      [] o = RENEWAL -> <<"N","R","-","R","E","N","E","W","A","L",".","h","t","m","l">>
      [] o = UPGRADE -> <<"N","R","-","U","P","G","R","A","D","E",".","h","t","m","l">>
      [] o = REFUND -> <<"N","R","-","R","E","F","U","N","D",".","h","t","m","l">>

ExpectedSuffix(o) ==
    CASE o = BEFORE_EXPIRY -> "Expiring Soon"
      [] o = EXPIRED -> "Expired"
      [] o = RENEWAL -> "Confirmation of Renewal"
      [] o = UPGRADE -> "Confirmation of Upgrade"
      [] o = REFUND -> "Refund request confirmation"

---------------------------------------------------------------------------
(* C1 *)

\* C1 as stated: whenever the registry answers a non-OK status, process
\* returns {} regardless of the other inputs, the template file existing
\* or not.
C1_NonOkAlwaysEmpty ==
    (op = "process" /\ nr_response.status_code # 200) => result = EmptyMapping

\* C1 as amended: when the template file of the option exists and the
\* registry answers a non-OK status, process returns {} (and renders
\* nothing), whatever the option, the email_info and the record body.
C1_NonOkEmptyWhenTemplateExists ==
    (op = "process" /\ nr_response.status_code # 200 /\ read_path \in files)
        => (result = EmptyMapping /\ queried /\ render_ctx = None)

C1_Witness ==
    /\ op = "process"
    /\ nr_response.status_code = 404
    /\ read_path \in files
    /\ Truthy(recipients_of_record)
    /\ result = EmptyMapping

---------------------------------------------------------------------------
(* C2 *)

\* C2: when the registry lookup succeeds and the record's
\* applicants.emailAddress is empty (None or ''), process returns {}: it
\* neither raises nor returns a payload, for every option and record.
C2_NoRecipientsEmpty ==
    (op = "process" /\ LookupSucceeded /\ ~Truthy(recipients_of_record))
        => result = EmptyMapping

C2_Witness ==
    /\ op = "process"
    /\ LookupSucceeded
    /\ recipients_of_record = Str("")
    /\ option = <<"R","E","N","E","W","A","L">>
    /\ Len(nr_record["names"]) > 0
    /\ result = EmptyMapping

---------------------------------------------------------------------------
(* C3 *)

\* C3: for each of the five options process reads the template file
\* NR-<OPTION-UPPERCASE>.html of the template directory, and a payload it
\* returns has the subject '<identifier> - <suffix of that option>'.
C3_TemplateAndSubject ==
    (op = "process" /\ option \in OptionValues)
        => /\ read_path.name = ExpectedFileName(option)
           /\ read_path.dir = Format(Get(config, "TEMPLATE_PATH", None))
           /\ ReturnedPayload =>
                result.value.content.subject =
                    email_info["identifier"] \o " - " \o ExpectedSuffix(option)

C3_Witness ==
    /\ op = "process"
    /\ option = UPGRADE
    /\ read_path = [dir |-> "/templates",
                    name |-> <<"N","R","-","U","P","G","R","A","D","E",".","h","t","m","l">>]
    /\ ReturnedPayload
    /\ result.value.content.subject = "NR 1234567 - Confirmation of Upgrade"

---------------------------------------------------------------------------
(* C4 *)

\* C4: every value process returns is {} or a complete payload: recipients
\* is the record's non-empty applicants.emailAddress, requestBy is the
\* fixed sender, content.body is the rendered HTML and content.attachments
\* is the empty list.
C4_EmptyOrCompletePayload ==
    (op = "process" /\ result.kind = "return")
        => \/ result.value = EmptyDict
           \/ /\ DOMAIN result.value = {"recipients", "requestBy", "content"}
              /\ DOMAIN result.value.content = {"subject", "body", "attachments"}
              /\ result.value.recipients = recipients_of_record
              /\ Truthy(recipients_of_record)
              /\ result.value.requestBy = "BCRegistries@gov.bc.ca"
              /\ render_ctx # None
              /\ result.value.content.body =
                    [template |-> [parts_of |-> [text_of |-> read_path]],
                     autoescape |-> TRUE,
                     context |-> render_ctx]
              /\ result.value.content.attachments = <<>>

C4_Witness ==
    /\ op = "process"
    /\ ReturnedPayload
    /\ result.value.recipients = Str("applicant@example.com")
    /\ result.value.content.attachments = <<>>

---------------------------------------------------------------------------
(* C5 *)

\* The positions of the record's names whose state is APPROVED or CONDITION.
MatchingNames == {i \in DOMAIN nr_record["names"] :
                    nr_record["names"][i].state \in {"APPROVED", "CONDITION"}}

\* C5: the legal_name given to rendering is the name of the first entry of
\* the record's names whose state is APPROVED or CONDITION, and '' when no
\* entry has such a state (names being empty included).
C5_LegalNameFirstMatch ==
    (op = "process" /\ render_ctx # None)
        => IF MatchingNames = {}
           THEN render_ctx.legal_name = ""
           ELSE \E i \in MatchingNames :
                    /\ \A j \in MatchingNames : i <= j
                    /\ render_ctx.legal_name = nr_record["names"][i].name

C5_Witness ==
    /\ op = "process"
    /\ render_ctx # None
    /\ Len(nr_record["names"]) = 2
    /\ nr_record["names"][1].state = "REJECTED"
    /\ nr_record["names"][2].state = "CONDITION"
    /\ render_ctx.legal_name = "Bolt Ltd"

---------------------------------------------------------------------------
(* C6 *)

\* email_info.data.request.refundValue is present.
RefundValuePresent ==
    /\ "data" \in DOMAIN email_info
    /\ "request" \in DOMAIN email_info["data"]
    /\ "refundValue" \in DOMAIN email_info["data"]["request"]

\* C6: the refund_value given to rendering is, for option 'refund',
\* email_info.data.request.refundValue when present and None otherwise;
\* for every other option it is '' even when that value is present.
C6_RefundValueOnlyForRefund ==
    (op = "process" /\ render_ctx # None)
        => IF option = REFUND
           THEN IF RefundValuePresent
                THEN render_ctx.refund_value = email_info["data"]["request"]["refundValue"]
                ELSE render_ctx.refund_value = None
           ELSE render_ctx.refund_value = Str("")

C6_Witness ==
    /\ op = "process"
    /\ render_ctx # None
    /\ option = RENEWAL
    /\ RefundValuePresent
    /\ render_ctx.refund_value = Str("")

---------------------------------------------------------------------------
(* C7 *)

\* C7: when the template file of the option is absent, process raises
\* (FileNotFoundError from read_text) instead of returning {} or a payload,
\* whatever the registry would answer: the registry is not queried.
C7_MissingTemplatePropagates ==
    (op = "process" /\ read_path \notin files)
        => (result = Raise("FileNotFoundError") /\ ~queried /\ render_ctx = None)

C7_Witness ==
    /\ op = "process"
    /\ read_path \notin files
    /\ nr_response.status_code = 404
    /\ result.kind = "raise"

---------------------------------------------------------------------------
(* C8 *)

\* C8: once the lookup succeeded, the expiration_date given to rendering
\* is the record's expirationDate on the legislation timezone's clock in
\* the report format when the record has a non-empty timestamp, and ''
\* when it is '' or None; in both cases rendering is reached.
C8_ExpirationDate ==
    (op = "process" /\ LookupSucceeded)
        => /\ render_ctx # None
           /\ LET ex == nr_record["expirationDate"]
              IN  IF ex \in {None, Str("")}
                  THEN render_ctx.expiration_date = Str("")
                  ELSE LET hours == ex.ordinal * 24 + ex.hour - ex.utcoffset
                                        + LegislationUtcOffset
                       IN  render_ctx.expiration_date =
                               [t |-> "report", year |-> ex.year,
                                ordinal |-> hours \div 24, hour |-> hours % 24]

\* 03:00 UTC on day 15 is 19:00 on day 14 on the legislation clock.
C8_Witness ==
    /\ op = "process"
    /\ LookupSucceeded
    /\ nr_record["expirationDate"] = Iso(2023, 15, 3, 0)
    /\ render_ctx.expiration_date =
            [t |-> "report", year |-> 2023, ordinal |-> 14, hour |-> 19]
    /\ ReturnedPayload

---------------------------------------------------------------------------
(* C9 *)

\* The entry of the URL table the specification gives for a code.
ExpectedUrl(code) ==
    CASE code \in {"CR", "UL", "CC", "XCR", "XUL", "RLC"} -> Get(config, "COLIN_URL", None)
      [] code \in {"FR", "GP", "DBA"} -> Get(config, "DECIDE_BUSINESS_URL", None)
      [] code \in {"LP", "LL", "XLP", "XLL"} -> Get(config, "CORP_FORMS_URL", None)
      [] code \in {"CP", "BC"} -> Get(config, "BUSINESS_URL", None)
      [] code = "SO" -> Str("BC Social Enterprise")
      [] code \in {"PA", "FI", "PAR"} ->
            Str("Submit appropriate form to BC Registries. Call if assistance required")
      [] code \in {"XCP", "XSO"} -> Str("Extraprovincial Cooperative Association")
      [] OTHER -> None

C9_UrlLookup ==
    /\ op = "get_url" => result = Return(ExpectedUrl(entity_arg))
    /\ (op = "process" /\ render_ctx # None)
        => /\ render_ctx.name_request_url = ExpectedUrl(nr_record["entity_type_cd"])
           /\ render_ctx.decide_business_url = Get(config, "DECIDE_BUSINESS_URL", None)

\* C9: get_url is a table lookup without side effects: a known code yields
\* its configured URL or fixed description, an unknown code yields None, a
\* missing configuration key yields None for its codes; process passes the
\* value as name_request_url and takes decide_business_url from the
\* configuration whatever the entity type. No call changes the
\* configuration or the template directory.
C9_GetUrlTable ==
    /\ []C9_UrlLookup
    /\ [][config' = config /\ files' = files]_vars

C9_Witness ==
    /\ op = "get_url"
    /\ entity_arg = "CC"
    /\ "COLIN_URL" \notin DOMAIN config
    /\ "BUSINESS_URL" \in DOMAIN config
    /\ result = Return(None)

---------------------------------------------------------------------------
(* C10 *)

\* The option is one of the five values written in another letter case.
OtherCaseOption == option \notin OptionValues /\ lower(option) \in OptionValues

\* C10 as stated: an option given in any letter case behaves as its
\* lowercase form: the same template file is read and, on an OK lookup
\* with non-empty recipients, the payload of the lowercase form is
\* returned (its subject suffix, its refund_value) instead of an exception.
C10_CaseInsensitive ==
    (op = "process" /\ lower(option) \in OptionValues)
        => /\ read_path.name = ExpectedFileName(lower(option))
           /\ (LookupSucceeded /\ Truthy(recipients_of_record))
                => /\ ReturnedPayload
                   /\ result.value.content.subject =
                        email_info["identifier"] \o " - " \o ExpectedSuffix(lower(option))
                   /\ (lower(option) = REFUND /\ RefundValuePresent)
                        => render_ctx.refund_value =
                                email_info["data"]["request"]["refundValue"]

\* C10 as amended: only the template file selection ignores the letter
\* case.  An option written in another letter case reads the template file
\* of its lowercase form, gets refund_value '' whatever email_info holds,
\* and on an OK lookup with non-empty recipients process raises KeyError
\* at the subject lookup instead of returning a payload.
C10_OnlyTemplateIgnoresCase ==
    (op = "process" /\ OtherCaseOption)
        => /\ read_path.name = ExpectedFileName(lower(option))
           /\ render_ctx # None => render_ctx.refund_value = Str("")
           /\ (LookupSucceeded /\ Truthy(recipients_of_record))
                => result = Raise("KeyError")

C10_Witness ==
    /\ op = "process"
    /\ option = <<"R","e","f","u","n","d">>
    /\ read_path.name = <<"N","R","-","R","E","F","U","N","D",".","h","t","m","l">>
    /\ RefundValuePresent
    /\ LookupSucceeded
    /\ Truthy(recipients_of_record)
    /\ result = Raise("KeyError")

===========================================================================
